---- MODULE Spec2Model ----
(***************************************************************************)
(* Cloudflare Ansible collection: the page-rule priority renumbering       *)
(* function and the run_module handlers of the state-managing modules.     *)
(***************************************************************************)
EXTENDS Integers, Sequences, FiniteSets, TLC

\* Largest priority (old or requested) drawn as an input of calculate_new_priority.
MaxPrio == 6
\* Largest number of sibling rules drawn as an input of calculate_new_priority.
MaxCount == 4

\* Largest number of page rules of a zone.
MaxRules == 2
\* Number of consecutive runs of a module with the same parameters.
MaxRuns == 2

VARIABLES
    pc,          \* position of the caller of calculate_new_priority, or of
                 \* the automation runner: "ready" to run a module, "done"
    old_prio,    \* argument old_prio
    new_prio,    \* argument new_prio
    rules_count, \* argument rules_count
    prio_ret,    \* the values returned so far, in call order
    module,      \* the module the runner invokes
    params,      \* module.params, with module.check_mode
    remote,      \* the resources held by Cloudflare
    calls,       \* the API calls issued by the current run, in order
    result,      \* what the run handed to exit_json or fail_json
    runs,        \* number of runs started
    prev,        \* what the previous run of the same task handed back
    raised       \* the API call that raised in the current run, or "none"

prio_vars == <<old_prio, new_prio, rules_count, prio_ret>>
run_vars == <<module, params, remote, calls, result, runs, prev, raised>>
vars == <<pc, old_prio, new_prio, rules_count, prio_ret,
          module, params, remote, calls, result, runs, prev, raised>>

----------------------------------------------------------------------------
\* cloudflare_page_rule.py: calculate_new_priority

\* The function without the sole-rule case.
calculate_new_priority_nosole(old, new, count) ==
    IF new > count
    THEN IF old = count THEN old ELSE count + 1
    ELSE IF new > old THEN new + 1
    ELSE new

\* The function with the "already last" early return dropped.
calculate_new_priority_nolast(old, new, count) ==
    IF count = 1 THEN 1
    ELSE IF new > count THEN count + 1
    ELSE IF new > old THEN new + 1
    ELSE new

\* The function without the clamp of a request beyond the end.
calculate_new_priority_noclamp(old, new, count) ==
    IF count = 1 THEN 1
    ELSE IF new > old THEN new + 1
    ELSE new

\* The function without the compensation of a move to a later position.
calculate_new_priority_nocomp(old, new, count) ==
    IF count = 1 THEN 1
    ELSE IF new > count
         THEN IF old = count THEN old ELSE count + 1
    ELSE new

\* The function with ">=" for ">" in the comparison with the old priority.
calculate_new_priority_ge(old, new, count) ==
    IF count = 1 THEN 1
    ELSE IF new > count
         THEN IF old = count THEN old ELSE count + 1
    ELSE IF new >= old THEN new + 1
    ELSE new

calculate_new_priority(old, new, count) ==
    IF count = 1 THEN 1
    ELSE IF new > count
         THEN IF old = count THEN old ELSE count + 1
    ELSE IF new > old THEN new + 1
    ELSE new

\* How a call ends when the last branch is an "elif new_prio < old_prio":
\* with equal priorities the function falls off its end and yields None.
PriorityOutcome_fallthrough(old, new, count) ==
    IF count # 1 /\ new <= count /\ new = old
    THEN [kind |-> "none", value |-> 0]
    ELSE [kind |-> "return", value |-> calculate_new_priority(old, new, count)]

\* How a call of calculate_new_priority ends: every path of the function is
\* a return statement with an integer expression, and it has no raise.
PriorityOutcome(old, new, count) ==
    [kind |-> "return", value |-> calculate_new_priority(old, new, count)]

----------------------------------------------------------------------------
\* The function applied to bounded inputs, then applied again with the
\* first result as the old priority.

PrioInit ==
    /\ pc = "call"
    /\ old_prio \in 1..MaxPrio
    /\ new_prio \in 1..MaxPrio
    /\ rules_count \in 1..MaxCount
    /\ prio_ret = <<>>
    /\ module = "none"
    /\ params = <<>>
    /\ remote = <<>>
    /\ calls = <<>>
    /\ result = <<>>
    /\ runs = 0
    /\ prev = <<>>
    /\ raised = "none"

CalcPriority ==
    /\ pc = "call"
    /\ prio_ret' = <<PriorityOutcome(old_prio, new_prio, rules_count)>>
    /\ pc' = "returned"
    /\ UNCHANGED <<old_prio, new_prio, rules_count>>
    /\ UNCHANGED run_vars

CalcPriorityAgain ==
    /\ pc = "returned"
    /\ prio_ret[1].kind = "return"
    /\ prio_ret' = Append(prio_ret,
                          PriorityOutcome(prio_ret[1].value, new_prio, rules_count))
    /\ pc' = "reapplied"
    /\ UNCHANGED <<old_prio, new_prio, rules_count>>
    /\ UNCHANGED run_vars

PrioNext == CalcPriority \/ CalcPriorityAgain

SpecPrio == PrioInit /\ [][PrioNext]_vars

----------------------------------------------------------------------------
\* Common to the run_module handlers

\* An empty dict ({}).
EmptyDict == [k \in {} |-> TRUE]
IsEmpty(d) == DOMAIN d = {}

\* The sequences over S without repetition, of length at most n.
SeqsNoDup(S, n) ==
    UNION {{s \in [1..k -> S] : \A i, j \in 1..k : i # j => s[i] # s[j]} :
           k \in 0..n}

Min(S) == CHOOSE x \in S : \A y \in S : x <= y

\* Where a "for ... if ...: break" scan stops: the first of the positions
\* hits at which the test holds, 0 when it holds at none.
FirstIndex(hits) == IF hits = {} THEN 0 ELSE Min(hits)

\* seq without its i-th element.
RemoveAt(seq, i) == [j \in 1..(Len(seq) - 1) |-> IF j < i THEN seq[j] ELSE seq[j + 1]]

\* seq with x placed at position i (1..Len(seq)+1).
InsertAt(seq, i, x) ==
    [j \in 1..(Len(seq) + 1) |->
        IF j < i THEN seq[j] ELSE IF j = i THEN x ELSE seq[j - 1]]

\* module.fail_json(msg=..., **result): the run ends in failure; the result
\* carries the changed flag and the value it held at that point.
FailJson(issued, msg, changed, value, rem) ==
    [calls |-> issued, failed |-> TRUE, msg |-> msg, changed |-> changed,
     value |-> value, remote |-> rem]

\* module.exit_json(**result)
ExitJson(issued, changed, value, rem) ==
    [calls |-> issued, failed |-> FALSE, msg |-> "", changed |-> changed,
     value |-> value, remote |-> rem]

\* The API calls that create, update, edit or delete a resource.
MutatingCalls ==
    {"zones.create", "zones.delete",
     "settings.edit",
     "rulesets.create", "rulesets.delete",
     "rules.create", "rules.edit", "rules.delete",
     "lists.create", "lists.delete",
     "items.create", "items.update", "items.delete",
     "page_rules.create", "page_rules.update", "page_rules.delete"}

\* The mutating calls among those issued by the current run.
Mutations == {i \in 1..Len(calls) : calls[i] \in MutatingCalls}

ZoneNames == {"example.com", "example.org"}
ZoneId(name) == IF name = "example.com" THEN "z1" ELSE "z2"
Zone(name) == [id |-> ZoneId(name), name |-> name]
\* What zones.list can return: any zones of the account, in any order.
ZoneListings == {[i \in DOMAIN s |-> Zone(s[i])] : s \in SeqsNoDup(ZoneNames, 2)}

\* The scan for the zone named zone_name: "zone = None; for zone in zones:
\* if zone.name == zone_name: zone = zone; break". The loop variable is the
\* result: after a scan without a match it is the last zone listed, and it
\* is None only for an empty listing. <<>> stands for None.
ResolveZone(listing, zone_name) ==
    LET i == FirstIndex({j \in DOMAIN listing : listing[j].name = zone_name})
    IN IF i # 0 THEN <<listing[i]>>
       ELSE IF listing = <<>> THEN <<>>
       ELSE <<listing[Len(listing)]>>

----------------------------------------------------------------------------
\* cloudflare_zone.py: run_module

zone_body(p, rem, fails, ret_none, check_mode) ==
    LET i == FirstIndex({j \in DOMAIN rem.zones : rem.zones[j].name = p.name})
        old == IF i = 0 THEN EmptyDict ELSE rem.zones[i]
        listed == <<"zones.list">>
    IN
    IF "zones.list" \in fails
    THEN FailJson(listed, "Unable to fetch zone from Cloudflare", FALSE, EmptyDict, rem)
    ELSE IF check_mode THEN ExitJson(listed, FALSE, old, rem)
    ELSE IF p.state = "present"
    THEN IF IsEmpty(old)
         THEN IF "zones.create" \in fails
              THEN FailJson(Append(listed, "zones.create"),
                            "Could not create new zone", FALSE, old, rem)
              ELSE LET rem2 == [rem EXCEPT !.zones = Append(@, Zone(p.name))]
                   IN IF ret_none
                      THEN FailJson(Append(listed, "zones.create"),
                                    "BUG: Cloudflare zone creation request did not return zone object",
                                    FALSE, old, rem2)
                      ELSE ExitJson(Append(listed, "zones.create"), TRUE,
                                    Zone(p.name), rem2)
         ELSE ExitJson(listed, FALSE, old, rem)
    ELSE \* absent
         IF ~IsEmpty(old)
         THEN IF "zones.delete" \in fails
              THEN FailJson(Append(listed, "zones.delete"),
                            "Could not delete zone", FALSE, old, rem)
              ELSE ExitJson(Append(listed, "zones.delete"), TRUE, old,
                            [rem EXCEPT !.zones = RemoveAt(@, i)])
         ELSE ExitJson(listed, FALSE, old, rem)

\* The handler with result['changed'] = True set before the mutating call
\* instead of after it.
zone_run_early(p, rem, fails, ret_none) ==
    LET o == zone_body(p, rem, fails, ret_none, p.check_mode)
        n == Len(o.calls)
    IN IF n > 0 /\ o.calls[n] \in MutatingCalls
       THEN [o EXCEPT !.changed = TRUE] ELSE o

\* The handler creating the zone again when the listing already holds it.
zone_run_recreate(p, rem, fails, ret_none) ==
    LET o == zone_body(p, rem, fails, ret_none, p.check_mode)
    IN IF /\ ~o.failed /\ ~p.check_mode /\ p.state = "present" /\ ~o.changed
       THEN [o EXCEPT !.calls = Append(@, "zones.create"), !.changed = TRUE]
       ELSE o

zone_run(p, rem, fails, ret_none) ==
    zone_body(p, rem, fails, ret_none, p.check_mode)

ZoneParams ==
    [name : ZoneNames, state : {"present", "absent"}, check_mode : BOOLEAN]

ZoneRemotes == [zones : ZoneListings]

----------------------------------------------------------------------------
\* cloudflare_page_rule.py: compare_rule_actions, run_module

\* A URL is the sequence of its characters; these are the ones drawn.
ParamUrls == {<<"x">>, <<"*">>}
RemoteUrls == {<<"x", "/">>, <<"*">>, <<"y", "/">>}
Letters == {"x", "y"}

\* "if ord(target_url[-1]) in range(ord('a'), ord('z') + 1): target_url += '/'"
NormalizeUrl(url) ==
    IF url[Len(url)] \in Letters THEN Append(url, "/") ELSE url

\* Lists of action dicts; the value of an action is optional.
A_on == <<[id |-> "rocket_loader", value |-> "on"]>>
A_off_on == <<[id |-> "rocket_loader", value |-> "off"],
              [id |-> "rocket_loader", value |-> "on"]>>
A_https == <<[id |-> "always_use_https"]>>

\* action.get("value", None)
ActionValue(action) ==
    IF "value" \in DOMAIN action THEN <<action.value>> ELSE <<>>

\* The dict built by "for action in actions: d[action['id']] = value":
\* a later entry for an id replaces an earlier one.
ActionDict(actions) ==
    LET ids == {actions[i].id : i \in 1..Len(actions)}
        last(id) == CHOOSE i \in 1..Len(actions) :
                        /\ actions[i].id = id
                        /\ \A j \in 1..Len(actions) : actions[j].id = id => j <= i
    IN [id \in ids |-> ActionValue(actions[last(id)])]

compare_rule_actions(old_actions, new_actions) ==
    ActionDict(old_actions) = ActionDict(new_actions)

\* rules with each rule's priority set to its position.
Renumber(rules) == [i \in DOMAIN rules |-> [rules[i] EXCEPT !.priority = i]]

\* Effect of page_rules.update on the zone's rules: the rule at position i
\* takes the submitted actions and status and is placed immediately before
\* the sibling that held priority prio before the update, or last when prio
\* exceeds the count; the rules are then renumbered 1..n.
PlaceRule(rules, i, new) ==
    LET n == Len(rules)
        rule == [rules[i] EXCEPT !.actions = new.actions, !.status = new.status]
        others == RemoveAt(rules, i)
        prio == new.priority
    IN Renumber(IF prio > n THEN Append(others, rule)
                ELSE IF prio = i THEN [rules EXCEPT ![i] = rule]
                ELSE InsertAt(others, IF prio < i THEN prio ELSE prio - 1, rule))

\* Effect of page_rules.create: a new rule, placed likewise.
CreateRule(rules, new) ==
    LET n == Len(rules)
        ids == {rules[i].id : i \in 1..n}
        rule == [id |-> CHOOSE k \in 1..(n + 1) : k \notin ids,
                 targets |-> new.targets, actions |-> new.actions,
                 priority |-> new.priority, status |-> new.status]
    IN Renumber(InsertAt(rules, IF new.priority > n THEN n + 1 ELSE new.priority, rule))

page_rule_body(p, rem, fails, check_mode) ==
    LET c1 == <<"zones.list">>
        c2 == <<"zones.list", "page_rules.list">>
        none == [old_rule |-> EmptyDict, new_rule |-> EmptyDict]
        fetch == "Could not fetch page rules from Cloudflare"
        zone == ResolveZone(rem.zones, p.zone_name)
        target_url == NormalizeUrl(p.target_url)
        rules == rem.page_rules
        i == FirstIndex({j \in DOMAIN rules : rules[j].targets = target_url})
        old_rule == IF i = 0 THEN EmptyDict ELSE rules[i]
        new_rule == [targets |-> target_url, actions |-> p.actions,
                     priority |-> p.priority,
                     status |-> IF p.enabled THEN "active" ELSE "disabled"]
        res == [old_rule |-> old_rule, new_rule |-> new_rule]
    IN
    IF "zones.list" \in fails THEN FailJson(c1, fetch, FALSE, none, rem)
    ELSE IF zone = <<>>
    THEN FailJson(c1, "Zone does not exist", FALSE, none, rem)
    ELSE IF "page_rules.list" \in fails THEN FailJson(c2, fetch, FALSE, none, rem)
    ELSE IF check_mode THEN ExitJson(c2, FALSE, res, rem)
    ELSE IF p.state = "present"
    THEN IF IsEmpty(old_rule)
         THEN IF "page_rules.create" \in fails
              THEN FailJson(Append(c2, "page_rules.create"),
                            "Could not create page rule", FALSE, res, rem)
              ELSE LET created == CreateRule(rules, new_rule)
                       k == FirstIndex({j \in DOMAIN created : created[j].targets = target_url})
                   IN ExitJson(Append(c2, "page_rules.create"), TRUE,
                               [res EXCEPT !.new_rule = created[k]],
                               [rem EXCEPT !.page_rules = created])
         ELSE LET new2 == [new_rule EXCEPT !.priority =
                              calculate_new_priority(old_rule.priority,
                                                     new_rule.priority, Len(rules))]
                  res2 == [res EXCEPT !.new_rule = new2]
              IN IF \/ ~compare_rule_actions(old_rule.actions, new2.actions)
                    \/ new2.priority # old_rule.priority
                    \/ new2.status # old_rule.status
                 THEN IF "page_rules.update" \in fails
                      THEN FailJson(Append(c2, "page_rules.update"),
                                    "Could not edit page rule", FALSE, res2, rem)
                      ELSE LET updated == PlaceRule(rules, i, new2)
                               k == FirstIndex({j \in DOMAIN updated : updated[j].id = old_rule.id})
                           IN ExitJson(Append(c2, "page_rules.update"), TRUE,
                                       [res EXCEPT !.new_rule = updated[k]],
                                       [rem EXCEPT !.page_rules = updated])
                 ELSE ExitJson(c2, FALSE, res2, rem)
    ELSE \* absent
         IF ~IsEmpty(old_rule)
         THEN IF "page_rules.delete" \in fails
              THEN FailJson(Append(c2, "page_rules.delete"),
                            "Could not delete page rule", FALSE, res, rem)
              ELSE ExitJson(Append(c2, "page_rules.delete"), TRUE,
                            [res EXCEPT !.new_rule = EmptyDict],
                            [rem EXCEPT !.page_rules = Renumber(RemoveAt(rules, i))])
         ELSE ExitJson(c2, FALSE, [res EXCEPT !.new_rule = EmptyDict], rem)

\* The handler with its check-mode exit never taken.
page_rule_run_nocheck(p, rem, fails) ==
    page_rule_body(p, rem, fails, FALSE)

page_rule_run(p, rem, fails) ==
    page_rule_body(p, rem, fails, p.check_mode)

PageRuleParams ==
    [zone_name : {"example.com"}, target_url : ParamUrls,
     actions : {A_off_on, A_https}, priority : 1..(MaxRules + 1),
     enabled : BOOLEAN, state : {"present", "absent"}, check_mode : BOOLEAN]

\* The page rules a zone can hold: distinct targets, priorities 1..n. The
\* actions and the status vary for the rule at x/ and are fixed for the
\* others.
PageRuleSets ==
    UNION {{Renumber([i \in 1..n |->
                         [id |-> i, targets |-> t[i],
                          actions |-> IF t[i] = <<"x", "/">> THEN a ELSE A_on,
                          priority |-> i,
                          status |-> IF t[i] = <<"x", "/">> THEN st ELSE "active"]]) :
              t \in {u \in [1..n -> RemoteUrls] :
                        \A i, j \in 1..n : i # j => u[i] # u[j]},
              a \in {A_on, A_https},
              st \in {"active", "disabled"}} :
           n \in 0..MaxRules}

PageRuleRemotes == [zones : ZoneListings, page_rules : PageRuleSets]

----------------------------------------------------------------------------
\* The computed priority submitted in an update: the zone holds rules_count
\* rules with priorities 1..rules_count, the rule updated being the one at
\* old_prio; page_rules.update is called with the priority returned by
\* calculate_new_priority.

\* The n rules of a zone, the rule at position i having id i.
SiblingRules(n) ==
    [i \in 1..n |-> [id |-> i, actions |-> A_on, priority |-> i, status |-> "active"]]

SubmitUpdate ==
    /\ pc = "returned"
    /\ old_prio <= rules_count
    /\ prio_ret[1].kind = "return"
    /\ remote' = [page_rules |->
                     PlaceRule(SiblingRules(rules_count), old_prio,
                               [actions |-> A_on, priority |-> prio_ret[1].value,
                                status |-> "active"])]
    /\ calls' = <<"page_rules.update">>
    /\ pc' = "updated"
    /\ UNCHANGED <<module, params, result, runs, prev, raised>>
    /\ UNCHANGED prio_vars

PlaceNext == CalcPriority \/ SubmitUpdate

SpecPlace == PrioInit /\ [][PlaceNext]_vars

----------------------------------------------------------------------------
\* cloudflare_zone_setting.py: build_new_value, run_module

\* A setting value is a str or a dict of values: <<"str", s>> or
\* <<"dict", f>> with f a function from keys to values.
Str(s) == <<"str", s>>
Dict(f) == <<"dict", f>>
IsDict(v) == v[1] = "dict"
\* What an uncaught exception leaves in place of a value.
Raised == <<"raise">>

\* merge_dicts(target, source): source.keys() raises AttributeError when the
\* target is a dict and the source is not.
RECURSIVE merge_dicts(_, _)
merge_dicts(target, source) ==
    IF IsDict(target)
    THEN IF ~IsDict(source) THEN Raised
         ELSE LET t == target[2]
                  s == source[2]
                  m == [key \in DOMAIN t \cup DOMAIN s |->
                           IF key \notin DOMAIN s THEN t[key]
                           ELSE IF key \in DOMAIN t
                                THEN merge_dicts(t[key], s[key])
                                ELSE s[key]]
              IN IF \E key \in DOMAIN m : m[key] = Raised THEN Raised
                 ELSE Dict(m)
    ELSE source

\* The requested value taken as it is, with no merge into the old one.
build_new_value_replace(old_value, new_value) == new_value

build_new_value(old_value, new_value) ==
    IF IsDict(new_value) THEN merge_dicts(old_value, new_value) ELSE new_value

\* The setting values drawn, as current value and as requested value.
SettingValues ==
    {Str("on"), Str("off"),
     Dict(EmptyDict),
     Dict([k \in {"enabled"} |-> Str("on")]),
     Dict([k \in {"enabled"} |-> Str("off")]),
     Dict([k \in {"enabled", "hsts"} |->
             IF k = "enabled" THEN Str("on")
             ELSE Dict([j \in {"max_age"} |-> Str("off")])]),
     Dict([k \in {"hsts"} |-> Dict([j \in {"max_age"} |-> Str("on")])]),
     Dict([k \in {"hsts"} |-> Str("on")])}

\* applied: whether Cloudflare takes the edit (the response carries the
\* merged value) or leaves the setting as it was.
zone_setting_body(p, rem, fails, applied, check_mode) ==
    LET c1 == <<"zones.list">>
        c2 == <<"zones.list", "settings.get">>
        c3 == <<"zones.list", "settings.get", "settings.edit">>
        fetch == "Unable to fetch zone setting from Cloudflare"
        zone == ResolveZone(rem.zones, p.zone_name)
        current == rem.setting
        new_value == build_new_value(current, p.value)
        updated == IF applied THEN new_value ELSE current
    IN
    IF "zones.list" \in fails THEN FailJson(c1, fetch, FALSE, Dict(EmptyDict), rem)
    ELSE IF zone = <<>>
    THEN FailJson(c1, "Zone does not exist", FALSE, Dict(EmptyDict), rem)
    ELSE IF "settings.get" \in fails
    THEN FailJson(c2, fetch, FALSE, Dict(EmptyDict), rem)
    ELSE IF check_mode THEN ExitJson(c2, FALSE, current, rem)
    ELSE IF IsDict(p.value) # IsDict(current)
    THEN FailJson(c2, "Wrong value type", FALSE, current, rem)
    ELSE IF new_value = Raised
    THEN FailJson(c2, "AttributeError", FALSE, current, rem)
    ELSE IF new_value # current
    THEN IF "settings.edit" \in fails
         THEN FailJson(c3, "Unable to modify zone setting", FALSE, current, rem)
         ELSE IF current # updated
         THEN ExitJson(c3, TRUE, updated, [rem EXCEPT !.setting = updated])
         ELSE FailJson(c3, "BUG: Requested to change value, but actual value did not change",
                       FALSE, current, rem)
    ELSE ExitJson(c2, FALSE, current, rem)

zone_setting_run(p, rem, fails, applied) ==
    zone_setting_body(p, rem, fails, applied, p.check_mode)

ZoneSettingParams ==
    [zone_name : {"example.com"}, value : SettingValues, check_mode : BOOLEAN]

ZoneSettingRemotes ==
    [zones : {<<>>, <<Zone("example.com")>>, <<Zone("example.org")>>},
     setting : SettingValues]

----------------------------------------------------------------------------
\* cloudflare_ruleset.py: run_module

\* The value of an optional parameter that was not given.
None == "None"

\* The scope test rejecting only the case in which neither is given.
ScopeGiven_any(p) == p.account_id # None \/ p.zone_name # None

\* The scope test shared by the ruleset modules: exactly one of account_id
\* and zone_name is given.
ScopeGiven(p) == (p.account_id = None) # (p.zone_name = None)

\* A ruleset of the scope, with the sequence of its rules.
Ruleset(name, kind, rules) ==
    [id |-> name, name |-> name, kind |-> kind, phase |-> "http_request_firewall_custom",
     rules |-> rules]

ruleset_body(p, rem, fails, check_mode) ==
    LET by_zone == p.zone_name # None
        c1 == IF by_zone THEN <<"zones.list">> ELSE <<>>
        c2 == Append(c1, "rulesets.list")
        fetch == "Could not fetch rulesets from Cloudflare"
        zone == ResolveZone(rem.zones, p.zone_name)
        i == FirstIndex({j \in DOMAIN rem.rulesets : rem.rulesets[j].name = p.name})
        old == IF i = 0 THEN EmptyDict ELSE rem.rulesets[i]
    IN
    IF ~ScopeGiven(p)
    THEN FailJson(<<>>, "Either account_id or zone_name must be specified",
                  FALSE, EmptyDict, rem)
    ELSE IF p.state = "present" /\ (p.phase = None \/ p.kind = None)
    THEN FailJson(<<>>, "Both phase and kind must be specified when state is set to present",
                  FALSE, EmptyDict, rem)
    ELSE IF by_zone /\ "zones.list" \in fails
    THEN FailJson(c1, fetch, FALSE, EmptyDict, rem)
    ELSE IF by_zone /\ zone = <<>>
    THEN FailJson(c1, "Zone does not exist", FALSE, EmptyDict, rem)
    ELSE IF "rulesets.list" \in fails
    THEN FailJson(c2, fetch, FALSE, EmptyDict, rem)
    ELSE IF check_mode THEN ExitJson(c2, FALSE, old, rem)
    ELSE IF p.state = "present"
    THEN IF IsEmpty(old)
         THEN IF "rulesets.create" \in fails
              THEN FailJson(Append(c2, "rulesets.create"),
                            "Could not create ruleset", FALSE, old, rem)
              ELSE LET new_ruleset == [Ruleset(p.name, p.kind, <<>>)
                                          EXCEPT !.phase = p.phase]
                   IN ExitJson(Append(c2, "rulesets.create"), TRUE, new_ruleset,
                               [rem EXCEPT !.rulesets = Append(@, new_ruleset)])
         ELSE ExitJson(c2, FALSE, old, rem)
    ELSE \* absent
         IF ~IsEmpty(old)
         THEN IF "rulesets.delete" \in fails
              THEN FailJson(Append(c2, "rulesets.delete"),
                            "Could not delete ruleset", FALSE, old, rem)
              ELSE ExitJson(Append(c2, "rulesets.delete"), TRUE, old,
                            [rem EXCEPT !.rulesets = RemoveAt(@, i)])
         ELSE ExitJson(c2, FALSE, old, rem)

\* The handler re-creating an existing ruleset whose kind differs from the
\* requested one.
ruleset_run_recreate(p, rem, fails) ==
    LET o == ruleset_body(p, rem, fails, p.check_mode)
    IN IF /\ ~o.failed /\ ~p.check_mode /\ p.state = "present"
          /\ ~IsEmpty(o.value) /\ ~o.changed /\ o.value.kind # p.kind
       THEN [o EXCEPT !.calls = Append(@, "rulesets.create"), !.changed = TRUE]
       ELSE o

ruleset_run(p, rem, fails) ==
    ruleset_body(p, rem, fails, p.check_mode)

RulesetParams ==
    [account_id : {None, "acc1"}, zone_name : {None, "example.com"},
     name : {"rs1"}, phase : {None, "http_request_firewall_custom"},
     kind : {None, "zone"}, state : {"present", "absent"}, check_mode : BOOLEAN]

RulesetRemotes ==
    [zones : {<<>>, <<Zone("example.com")>>, <<Zone("example.org")>>},
     rulesets : {[i \in DOMAIN s |-> Ruleset(s[i], "custom", <<>>)] :
                    s \in SeqsNoDup({"rs1", "rs2"}, 2)}]

----------------------------------------------------------------------------
\* cloudflare_ruleset_rule.py: run_module

\* d without the keys of S (dict.pop of each).
Without(d, S) == [k \in DOMAIN d \ S |-> d[k]]

\* d with the entries of e (e's value where both have the key).
Updated(d, e) ==
    [k \in DOMAIN d \cup DOMAIN e |-> IF k \in DOMAIN e THEN e[k] ELSE d[k]]

ServerFields == {"id", "version", "last_updated"}
RuleSpecParams == {"ref", "description", "expression"}

\* new_rule_spec: the rule parameters that are not None.
NewRuleSpec(p) == [k \in {x \in RuleSpecParams : p[x] # None} |-> p[k]]

NextVersion(v) == IF v = "1" THEN "2" ELSE "3"

\* Effect of rulesets.rules.create: the rule is appended with a new id.
RuleCreated(rules, spec) ==
    LET ids == {rules[j].id : j \in 1..Len(rules)}
        id == CHOOSE x \in {"id1", "id2", "id3", "id4"} : x \notin ids
    IN Append(rules, Updated([id |-> id, version |-> "1", last_updated |-> "t1"], spec))

\* Effect of rulesets.rules.edit: the rule takes the submitted definition
\* and a new version.
RuleEdited(rules, k, spec) ==
    [rules EXCEPT ![k] =
        Updated([id |-> @.id, version |-> NextVersion(@.version),
                 last_updated |-> "t2"], spec)]

ruleset_rule_body(p, rem, fails, check_mode) ==
    LET by_zone == p.zone_name # None
        c1 == IF by_zone THEN <<"zones.list">> ELSE <<>>
        c2 == Append(c1, "rulesets.list")
        fetch == "Could not fetch rulesets from Cloudflare"
        zone == ResolveZone(rem.zones, p.zone_name)
        i == FirstIndex({j \in DOMAIN rem.rulesets : rem.rulesets[j].name = p.ruleset_name})
        c3 == IF i = 0 THEN c2 ELSE Append(c2, "rulesets.get")
        rules == IF i = 0 \/ rem.rulesets[i].norules THEN <<>>
                 ELSE rem.rulesets[i].rules
        k == FirstIndex({j \in DOMAIN rules : rules[j].ref = p.ref})
        rule == IF k = 0 THEN EmptyDict ELSE rules[k]
        new_rule_spec == NewRuleSpec(p)
        popped == Without(rule, ServerFields)
        with(rs) == [rem EXCEPT !.rulesets[i].rules = rs,
                                !.rulesets[i].norules = FALSE]
    IN
    IF ~ScopeGiven(p)
    THEN FailJson(<<>>, "Either account_id or zone_name must be specified",
                  FALSE, EmptyDict, rem)
    ELSE IF by_zone /\ "zones.list" \in fails
    THEN FailJson(c1, fetch, FALSE, EmptyDict, rem)
    ELSE IF by_zone /\ zone = <<>>
    THEN FailJson(c1, "Zone does not exist", FALSE, EmptyDict, rem)
    ELSE IF "rulesets.list" \in fails
    THEN FailJson(c2, fetch, FALSE, EmptyDict, rem)
    ELSE IF i # 0 /\ "rulesets.get" \in fails
    THEN FailJson(c3, fetch, FALSE, EmptyDict, rem)
    ELSE IF check_mode THEN ExitJson(c3, FALSE, rule, rem)
    ELSE IF p.state = "present"
    THEN IF i = 0
         THEN FailJson(c3, "Ruleset does not exist", FALSE, rule, rem)
         ELSE IF IsEmpty(rule)
         THEN IF "rules.create" \in fails
              THEN FailJson(Append(c3, "rules.create"),
                            "Could not create new rule", FALSE, rule, rem)
              ELSE LET changed == RuleCreated(rules, new_rule_spec)
                       n == FirstIndex({j \in DOMAIN changed : changed[j].ref = p.ref})
                   IN ExitJson(Append(c3, "rules.create"), TRUE,
                               changed[n], with(changed))
         ELSE IF popped # new_rule_spec
         THEN IF "rules.edit" \in fails
              THEN FailJson(Append(c3, "rules.edit"),
                            "Could not update rule", FALSE, popped, rem)
              ELSE LET changed == RuleEdited(rules, k, new_rule_spec)
                       n == FirstIndex({j \in DOMAIN changed : changed[j].ref = p.ref})
                   IN ExitJson(Append(c3, "rules.edit"), TRUE,
                               changed[n], with(changed))
         ELSE ExitJson(c3, FALSE, popped, rem)
    ELSE \* absent
         IF i # 0 /\ ~IsEmpty(rule)
         THEN IF "rules.delete" \in fails
              THEN FailJson(Append(c3, "rules.delete"),
                            "Could not delete rule", FALSE, rule, rem)
              ELSE ExitJson(Append(c3, "rules.delete"), TRUE, rule,
                            with(RemoveAt(rules, k)))
         ELSE ExitJson(c3, FALSE, rule, rem)

\* The handler failing for state=absent too when the ruleset is missing.
ruleset_rule_run_strict(p, rem, fails) ==
    LET o == ruleset_rule_body(p, rem, fails, p.check_mode)
    IN IF /\ ~o.failed /\ ~p.check_mode /\ p.state = "absent"
          /\ \A j \in DOMAIN rem.rulesets : rem.rulesets[j].name # p.ruleset_name
       THEN FailJson(o.calls, "Ruleset does not exist", FALSE, o.value, rem)
       ELSE o

ruleset_rule_run(p, rem, fails) ==
    ruleset_rule_body(p, rem, fails, p.check_mode)

RulesetRuleParams ==
    [account_id : {None, "acc1"}, zone_name : {None, "example.com"},
     ruleset_name : {"rs1"}, ref : {"ref1"}, description : {None, "block bots"},
     expression : {None, "ip.src eq 1.1.1.1"},
     state : {"present", "absent"}, check_mode : BOOLEAN]

\* The rules a ruleset can hold: at most two, with distinct refs; the rule
\* ref1 with or without a description, the rule ref2 without one.
RemoteRuleLists ==
    LET r1(d) == Updated([id |-> "id1", version |-> "1", last_updated |-> "t0",
                          ref |-> "ref1", expression |-> "ip.src eq 1.1.1.1"], d)
        r2 == [id |-> "id2", version |-> "1", last_updated |-> "t0",
               ref |-> "ref2", expression |-> "ip.src eq 2.2.2.2"]
        d1s == {EmptyDict, [x \in {"description"} |-> "block bots"],
                [x \in {"description"} |-> "old text"]}
    IN {<<>>, <<r2>>} \cup {<<r1(d)>> : d \in d1s}
       \cup {<<r1(d), r2>> : d \in d1s} \cup {<<r2, r1(d)>> : d \in d1s}

RulesetRuleRemotes ==
    [zones : {<<>>, <<Zone("example.com")>>, <<Zone("example.org")>>},
     rulesets : {<<>>}
                \cup {<<Ruleset("rs2", "custom", <<>>) @@ [norules |-> FALSE]>>}
                \cup {<<Ruleset("rs1", "custom", rs) @@ [norules |-> FALSE]>> :
                         rs \in RemoteRuleLists}
                \cup {<<Ruleset("rs1", "custom", <<>>) @@ [norules |-> TRUE]>>}]

----------------------------------------------------------------------------
\* cloudflare_ruleset_info.py: run_module

\* The module exits the same way in check mode and out of it.
ruleset_info_run(p, rem, fails) ==
    LET by_zone == p.zone_name # None
        c1 == IF by_zone THEN <<"zones.list">> ELSE <<>>
        c2 == Append(c1, "rulesets.list")
        c3 == Append(c2, "rulesets.get")
        fetch == "Could not fetch rulesets from Cloudflare"
        zone == ResolveZone(rem.zones, p.zone_name)
        i == FirstIndex({j \in DOMAIN rem.rulesets :
                            /\ rem.rulesets[j].name = p.name
                            /\ rem.rulesets[j].phase = p.phase})
    IN
    IF ~ScopeGiven(p)
    THEN FailJson(<<>>, "Either account_id or zone_name must be specified",
                  FALSE, EmptyDict, rem)
    ELSE IF by_zone /\ "zones.list" \in fails
    THEN FailJson(c1, fetch, FALSE, EmptyDict, rem)
    ELSE IF by_zone /\ zone = <<>>
    THEN FailJson(c1, "Zone does not exist", FALSE, EmptyDict, rem)
    ELSE IF "rulesets.list" \in fails
    THEN FailJson(c2, fetch, FALSE, EmptyDict, rem)
    ELSE IF i = 0 THEN ExitJson(c2, FALSE, EmptyDict, rem)
    ELSE IF "rulesets.get" \in fails
    THEN FailJson(c3, "Could not fetch ruleset from Cloudflare", FALSE, EmptyDict, rem)
    ELSE ExitJson(c3, FALSE, rem.rulesets[i], rem)

Phases == {"http_request_firewall_custom", "http_ratelimit"}

RulesetInfoParams ==
    [account_id : {None, "acc1"}, zone_name : {None, "example.com"},
     name : {"rs1"}, phase : Phases, check_mode : BOOLEAN]

----------------------------------------------------------------------------
\* cloudflare_ruleset_rule_info.py: run_module

\* rule.<key> of a rule object: None for a field the rule does not have.
RuleAttr(rule, key) == IF key \in DOMAIN rule THEN rule[key] ELSE None

\* "if rule.ref == module.params['ref'] or
\*     rule.description == module.params['description']"
RuleSelected(rule, p) ==
    \/ RuleAttr(rule, "ref") = p.ref
    \/ RuleAttr(rule, "description") = p.description

ruleset_rule_info_run(p, rem, fails) ==
    LET by_zone == p.zone_name # None
        c1 == IF by_zone THEN <<"zones.list">> ELSE <<>>
        c2 == Append(c1, "rulesets.list")
        c3 == Append(c2, "rulesets.get")
        fetch == "Could not fetch rulesets from Cloudflare"
        zone == ResolveZone(rem.zones, p.zone_name)
        i == FirstIndex({j \in DOMAIN rem.rulesets :
                            /\ rem.rulesets[j].name = p.ruleset_name
                            /\ rem.rulesets[j].phase = p.phase})
        rules == IF i = 0 \/ rem.rulesets[i].norules THEN <<>>
                 ELSE rem.rulesets[i].rules
        k == FirstIndex({j \in DOMAIN rules : RuleSelected(rules[j], p)})
    IN
    IF ~ScopeGiven(p)
    THEN FailJson(<<>>, "Either account_id or zone_name must be specified",
                  FALSE, EmptyDict, rem)
    ELSE IF (p.ref = None) = (p.description = None)
    THEN FailJson(<<>>, "Either ref or description must be specified",
                  FALSE, EmptyDict, rem)
    ELSE IF by_zone /\ "zones.list" \in fails
    THEN FailJson(c1, fetch, FALSE, EmptyDict, rem)
    ELSE IF by_zone /\ zone = <<>>
    THEN FailJson(c1, "Zone does not exist", FALSE, EmptyDict, rem)
    ELSE IF "rulesets.list" \in fails
    THEN FailJson(c2, fetch, FALSE, EmptyDict, rem)
    ELSE IF i = 0
    THEN FailJson(c2, "Ruleset does not exist in phase", FALSE, EmptyDict, rem)
    ELSE IF "rulesets.get" \in fails
    THEN FailJson(c3, fetch, FALSE, EmptyDict, rem)
    ELSE ExitJson(c3, FALSE, IF k = 0 THEN EmptyDict ELSE rules[k], rem)

RulesetRuleInfoParams ==
    [account_id : {None, "acc1"}, zone_name : {None, "example.com"},
     ruleset_name : {"rs1"}, phase : Phases,
     ref : {None, "ref1", "ref3"}, description : {None, "block bots"},
     check_mode : BOOLEAN]

----------------------------------------------------------------------------
\* cloudflare_rules_list.py: get_list_items, compare_lists, run_module

\* Number of items on a page of items.list.
PageSize == 1

\* An optional value: <<"none">> for None, <<"some", x>> for x.
Nothing == <<"none">>
Some(x) == <<"some", x>>

\* The pages Cloudflare serves for a list: PageSize items each; every page
\* carries result_info, with an 'after' cursor on all but the last. The
\* cursor of a page is its number; 0 stands for no cursor (None).
PagesOf(items) ==
    LET n == IF Len(items) = 0 THEN 1
             ELSE (Len(items) + PageSize - 1) \div PageSize
    IN [k \in 1..n |->
           [items |-> SubSeq(items, (k - 1) * PageSize + 1,
                             IF k * PageSize < Len(items) THEN k * PageSize
                             ELSE Len(items)),
            result_info |-> TRUE,
            after |-> IF k < n THEN k + 1 ELSE 0]]

\* The loop of get_list_items from the given cursor on: the items collected
\* and the number of list requests made; hang when the loop is still
\* running after fuel requests.
RECURSIVE PageLoop(_, _, _, _, _)
PageLoop(pages, cursor, items, requests, fuel) ==
    IF fuel = 0 THEN [items |-> items, requests |-> requests, hang |-> TRUE]
    ELSE LET list_page == pages[IF cursor = 0 THEN 1 ELSE cursor]
             items2 == items \o list_page.items
             cursor2 == IF list_page.result_info THEN list_page.after ELSE cursor
         IN IF cursor2 = 0
            THEN [items |-> items2, requests |-> requests + 1, hang |-> FALSE]
            ELSE PageLoop(pages, cursor2, items2, requests + 1, fuel - 1)

get_list_items(pages) == PageLoop(pages, 0, <<>>, 0, Len(pages) + 2)

\* jsonpickle.dumps of a redirect dict: the entries in the dict's order. A
\* dict is the sequence of its <<key, value>> entries.
Dumps(d) == d

\* set([i[kind] for i in items]), serialized for redirects; Raised when an
\* item has no such key (KeyError).
KindKeys(kind, items) ==
    IF \E i \in 1..Len(items) : kind \notin DOMAIN items[i] THEN Raised
    ELSE IF kind = "redirect"
    THEN Some({Dumps(items[i].redirect) : i \in 1..Len(items)})
    ELSE Some({items[i][kind] : i \in 1..Len(items)})

\* The comparison made on the lists of keys instead of on their sets.
compare_lists_bylist(kind, old, new) ==
    IF KindKeys(kind, old) = Raised \/ KindKeys(kind, new) = Raised THEN Raised
    ELSE Some([i \in DOMAIN old |-> IF kind = "redirect" THEN Dumps(old[i].redirect)
                                    ELSE old[i][kind]]
              = [j \in DOMAIN new |-> IF kind = "redirect" THEN Dumps(new[j].redirect)
                                      ELSE new[j][kind]])

\* Raised, or Some(the boolean returned).
compare_lists(kind, old, new) ==
    LET o == KindKeys(kind, old)
        n == KindKeys(kind, new)
    IN IF o = Raised \/ n = Raised THEN Raised ELSE Some(o[2] = n[2])

\* The entries of a redirect in the order of the fields of the API's
\* redirect object, which is the order of its to_dict().
FieldOrder(redirect) ==
    SelectSeq(redirect, LAMBDA e : e[1] = "source_url")
        \o SelectSeq(redirect, LAMBDA e : e[1] # "source_url")

\* An item as Cloudflare returns it: with an id and timestamps.
StoredItem(item, id) ==
    LET it == IF "redirect" \in DOMAIN item
              THEN [item EXCEPT !.redirect = FieldOrder(@)] ELSE item
    IN Updated(it, [id |-> id, created_on |-> "t1", modified_on |-> "t1"])

Stored(items) == [k \in DOMAIN items |-> StoredItem(items[k], k)]

rules_list_body(p, rem, fails, check_mode) ==
    LET c1 == <<"accounts.list">>
        c2 == <<"accounts.list", "lists.list">>
        a == FirstIndex({j \in DOMAIN rem.accounts : rem.accounts[j] = p.account_name})
        i == FirstIndex({j \in DOMAIN rem.lists : rem.lists[j].name = p.name})
        got == IF i = 0 THEN [items |-> <<>>, requests |-> 0, hang |-> FALSE]
               ELSE get_list_items(PagesOf(rem.lists[i].items))
        c3 == c2 \o [k \in 1..got.requests |-> "items.list"]
        rules_list == got.items
        fetch == "Unable to fetch lists from Cloudflare"
        same == compare_lists(p.kind, rules_list, p.items[2])
    IN
    IF "accounts.list" \in fails
    THEN FailJson(c1, "Unable to fetch accounts from Cloudflare", FALSE, <<>>, rem)
    ELSE IF a = 0 THEN FailJson(c1, "Account does not exist", FALSE, <<>>, rem)
    ELSE IF "lists.list" \in fails THEN FailJson(c2, fetch, FALSE, <<>>, rem)
    ELSE IF i # 0 /\ "items.list" \in fails
    THEN FailJson(Append(c2, "items.list"), fetch, FALSE, <<>>, rem)
    ELSE IF check_mode THEN ExitJson(c3, FALSE, rules_list, rem)
    ELSE IF p.state = "present"
    THEN IF p.items = Nothing
         THEN FailJson(c3, "items parameter is required when state is set to 'present'",
                       FALSE, rules_list, rem)
         ELSE IF Len(rules_list) > 0
         THEN IF same = Raised THEN FailJson(c3, "KeyError", FALSE, rules_list, rem)
              ELSE IF ~same[2]
              THEN IF "items.update" \in fails
                   THEN FailJson(Append(c3, "items.update"),
                                 "Unable to update list", FALSE, rules_list, rem)
                   ELSE ExitJson(Append(c3, "items.update"), TRUE, p.items[2],
                                 [rem EXCEPT !.lists[i].items = Stored(p.items[2])])
              ELSE ExitJson(c3, FALSE, rules_list, rem)
         ELSE \* no list of that name, or one without items
              IF "lists.create" \in fails
              THEN FailJson(Append(c3, "lists.create"),
                            "Unable to create list", FALSE, rules_list, rem)
              ELSE LET new_list == [id |-> p.name, name |-> p.name,
                                    kind |-> p.kind, items |-> <<>>]
                       c4 == c3 \o <<"lists.create", "items.create">>
                   IN IF "items.create" \in fails
                      THEN FailJson(c4, "Unable to create list", FALSE, rules_list,
                                    [rem EXCEPT !.lists = Append(@, new_list)])
                      ELSE ExitJson(c4, TRUE, p.items[2],
                                    [rem EXCEPT !.lists = Append(@,
                                        [new_list EXCEPT !.items = Stored(p.items[2])])])
    ELSE \* absent
         IF Len(rules_list) > 0
         THEN IF "lists.delete" \in fails
              THEN FailJson(Append(c3, "lists.delete"),
                            "Unable to delete list", FALSE, rules_list, rem)
              ELSE ExitJson(Append(c3, "lists.delete"), TRUE, <<>>,
                            [rem EXCEPT !.lists = RemoveAt(@, i)])
         ELSE ExitJson(c3, FALSE, rules_list, rem)

rules_list_run(p, rem, fails) ==
    rules_list_body(p, rem, fails, p.check_mode)

\* lists.create raises for a name the account already has.
NameTaken(p, rem) ==
    IF \E j \in DOMAIN rem.lists : rem.lists[j].name = p.name
    THEN {"lists.create"} ELSE {}

\* Items as given in the parameters.
Ip1 == [ip |-> "10.0.0.1", comment |-> "lan"]
Ip1_plain == [ip |-> "10.0.0.1"]
Ip2 == [ip |-> "10.0.0.2"]
Rd1 == [redirect |-> <<<<"source_url", "a.com">>, <<"target_url", "b.com">>>>]
Rd1_swapped == [redirect |-> <<<<"target_url", "b.com">>, <<"source_url", "a.com">>>>]

AccountListings == {<<>>, <<"My Account">>, <<"Other">>, <<"Other", "My Account">>}

\* The lists of the account: none, another list, or the list "blocked".
ListListings ==
    {<<>>, <<[id |-> "other", name |-> "other", kind |-> "ip", items |-> Stored(<<Ip2>>)]>>}
    \cup {<<[id |-> "blocked", name |-> "blocked", kind |-> "ip", items |-> Stored(its)]>> :
             its \in {<<>>, <<Ip1>>, <<Ip1_plain, Ip2>>}}
    \cup {<<[id |-> "blocked", name |-> "blocked", kind |-> "redirect",
             items |-> Stored(<<Rd1>>)]>>}

ListRemotes == [accounts : AccountListings, lists : ListListings]

RulesListParams ==
    [name : {"blocked"}, account_name : {"My Account"}, kind : {"ip", "redirect"},
     items : {Nothing, Some(<<>>), Some(<<Ip1>>), Some(<<Ip2, Ip1_plain, Ip2>>),
              Some(<<Rd1>>), Some(<<Rd1_swapped>>)},
     state : {"present", "absent"}, check_mode : BOOLEAN]

----------------------------------------------------------------------------
\* cloudflare_rules_list_item.py: run_module

\* The value of key in a dict given as a sequence of entries.
Lookup(d, key) == d[CHOOSE i \in 1..Len(d) : d[i][1] = key][2]

\* Equality of two item dicts (==): the same keys with equal values; a
\* redirect, itself a dict, is compared without regard to the order of its
\* entries.
ItemsEqual(x, y) ==
    /\ DOMAIN x = DOMAIN y
    /\ \A k \in DOMAIN x :
          IF k = "redirect"
          THEN {x[k][i] : i \in 1..Len(x[k])} = {y[k][i] : i \in 1..Len(y[k])}
          ELSE x[k] = y[k]

\* "if item.<kind> == module.params['item'][<kind>]", by source_url for a
\* redirect.
ItemMatches(kind, item, wanted) ==
    IF kind = "redirect"
    THEN Lookup(item.redirect, "source_url") = Lookup(wanted.redirect, "source_url")
    ELSE item[kind] = wanted[kind]

rules_list_item_body(p, rem, fails, check_mode) ==
    LET c1 == <<"accounts.list">>
        c2 == <<"accounts.list", "lists.list">>
        a == FirstIndex({j \in DOMAIN rem.accounts : rem.accounts[j] = p.account_name})
        i == FirstIndex({j \in DOMAIN rem.lists : rem.lists[j].name = p.list_name})
        got == IF i = 0 THEN [items |-> <<>>, requests |-> 0, hang |-> FALSE]
               ELSE get_list_items(PagesOf(rem.lists[i].items))
        c3 == c2 \o [k \in 1..got.requests |-> "items.list"]
        list_items == got.items
        fetch == "Unable to fetch lists from Cloudflare"
        \* the scan has no break: the last matching item is kept
        hits == {k \in 1..Len(list_items) : ItemMatches(p.kind, list_items[k], p.item)}
        k == IF hits = {} THEN 0 ELSE CHOOSE x \in hits : \A y \in hits : y <= x
        item == IF k = 0 THEN EmptyDict
                ELSE Without(list_items[k], {"id", "created_on", "modified_on"})
        cdel == Append(c3, "items.delete")
        removed == [rem EXCEPT !.lists[i].items = RemoveAt(@, k)]
        added(r) == LET ids == {r.lists[i].items[j].id : j \in 1..Len(r.lists[i].items)}
                        id == CHOOSE x \in 1..(Cardinality(ids) + 1) : x \notin ids
                    IN [r EXCEPT !.lists[i].items =
                           Append(@, StoredItem(p.item, id))]
    IN
    IF "accounts.list" \in fails
    THEN FailJson(c1, "Unable to fetch accounts from Cloudflare", FALSE, EmptyDict, rem)
    ELSE IF a = 0 THEN FailJson(c1, "Account does not exist", FALSE, EmptyDict, rem)
    ELSE IF "lists.list" \in fails THEN FailJson(c2, fetch, FALSE, EmptyDict, rem)
    ELSE IF i # 0 /\ rem.lists[i].kind # p.kind
    THEN FailJson(c2, "Wrong kind of list", FALSE, EmptyDict, rem)
    ELSE IF i # 0 /\ "items.list" \in fails
    THEN FailJson(Append(c2, "items.list"), fetch, FALSE, EmptyDict, rem)
    ELSE IF i = 0 THEN FailJson(c2, "List does not exist", FALSE, EmptyDict, rem)
    ELSE IF Len(list_items) > 0 /\ p.kind \notin DOMAIN p.item
    THEN FailJson(c3, "KeyError", FALSE, EmptyDict, rem)
    ELSE IF check_mode THEN ExitJson(c3, FALSE, item, rem)
    ELSE IF p.state = "present"
    THEN IF k = 0
         THEN IF "items.create" \in fails
              THEN FailJson(Append(c3, "items.create"),
                            "Unable to create item", FALSE, item, rem)
              ELSE ExitJson(Append(c3, "items.create"), TRUE, p.item, added(rem))
         ELSE IF ~ItemsEqual(item, p.item)
         THEN IF "items.delete" \in fails
              THEN FailJson(cdel, "Unable to replace item", FALSE, item, rem)
              ELSE IF "items.create" \in fails
              THEN FailJson(Append(cdel, "items.create"),
                            "Unable to replace item", FALSE, item, removed)
              ELSE ExitJson(Append(cdel, "items.create"), TRUE, p.item,
                            added(removed))
         ELSE ExitJson(c3, FALSE, item, rem)
    ELSE \* absent
         IF k # 0
         THEN IF "items.delete" \in fails
              THEN FailJson(cdel, "Unable to delete item", FALSE, item, rem)
              ELSE ExitJson(cdel, TRUE, EmptyDict, removed)
         ELSE ExitJson(c3, FALSE, item, rem)

rules_list_item_run(p, rem, fails) ==
    rules_list_item_body(p, rem, fails, p.check_mode)

RulesListItemParams ==
    [list_name : {"blocked"}, account_name : {"My Account"},
     kind : {"ip", "redirect"}, item : {Ip1, Ip1_plain, Ip2, Rd1_swapped},
     state : {"present", "absent"}, check_mode : BOOLEAN]

----------------------------------------------------------------------------
\* The runner: a module is run with given parameters against a given remote
\* state, and run again with the same parameters. A run issues each API call
\* at most once and ends at the first call that raises, so the calls that
\* raise are drawn as "none" or one call.

NoResult == [failed |-> FALSE, msg |-> "", changed |-> FALSE, value |-> EmptyDict]

RunInit ==
    /\ pc = "ready"
    /\ \/ module = "zone" /\ params \in ZoneParams /\ remote \in ZoneRemotes
       \/ module = "zone_setting" /\ params \in ZoneSettingParams
                                  /\ remote \in ZoneSettingRemotes
       \/ module = "ruleset" /\ params \in RulesetParams
                             /\ remote \in RulesetRemotes
       \/ module = "ruleset_rule" /\ params \in RulesetRuleParams
                                  /\ remote \in RulesetRuleRemotes
       \/ module = "rules_list" /\ params \in RulesListParams
                                /\ remote \in ListRemotes
       \/ module = "rules_list_item" /\ params \in RulesListItemParams
                                     /\ remote \in ListRemotes
       \/ module = "page_rule" /\ params \in PageRuleParams
                               /\ remote \in PageRuleRemotes
       \/ module = "ruleset_info" /\ params \in RulesetInfoParams
                                  /\ remote \in RulesetRemotes
       \/ module = "ruleset_rule_info" /\ params \in RulesetRuleInfoParams
                                       /\ remote \in RulesetRuleRemotes
    /\ calls = <<>>
    /\ result = NoResult
    /\ runs = 0
    /\ prev = NoResult
    /\ raised = "none"
    /\ old_prio = 1 /\ new_prio = 1 /\ rules_count = 1 /\ prio_ret = <<>>

\* The run ends with outcome o, the calls of fails raising when issued: a
\* run ends at the first call that raises, which is then the last issued.
Finish(o, fails) ==
    /\ calls' = o.calls
    /\ raised' = IF o.calls # <<>> /\ o.calls[Len(o.calls)] \in fails
                 THEN o.calls[Len(o.calls)] ELSE "none"
    /\ result' = [failed |-> o.failed, msg |-> o.msg, changed |-> o.changed,
                  value |-> o.value]
    /\ remote' = o.remote
    /\ pc' = "done"
    /\ runs' = runs + 1
    /\ UNCHANGED <<module, params, prev>>
    /\ UNCHANGED prio_vars

RunZone ==
    /\ pc = "ready" /\ module = "zone"
    /\ \E fail \in {"none", "zones.list", "zones.create", "zones.delete"},
          ret_none \in BOOLEAN :
          Finish(zone_run(params, remote, {fail}, ret_none), {fail})

RunZoneSetting ==
    /\ pc = "ready" /\ module = "zone_setting"
    /\ \E fail \in {"none", "zones.list", "settings.get", "settings.edit"},
          applied \in BOOLEAN :
          Finish(zone_setting_run(params, remote, {fail}, applied), {fail})

RunRuleset ==
    /\ pc = "ready" /\ module = "ruleset"
    /\ \E fail \in {"none", "zones.list", "rulesets.list", "rulesets.create",
                     "rulesets.delete"} :
          Finish(ruleset_run(params, remote, {fail}), {fail})

RunRulesetRule ==
    /\ pc = "ready" /\ module = "ruleset_rule"
    /\ \E fail \in {"none", "zones.list", "rulesets.list", "rulesets.get",
                     "rules.create", "rules.edit", "rules.delete"} :
          Finish(ruleset_rule_run(params, remote, {fail}), {fail})

RunRulesList ==
    /\ pc = "ready" /\ module = "rules_list"
    /\ \E fail \in {"none", "accounts.list", "lists.list", "items.list",
                     "items.update", "lists.create", "items.create",
                     "lists.delete"} :
          LET fails == {fail} \cup NameTaken(params, remote)
          IN Finish(rules_list_run(params, remote, fails), fails)

RunRulesListItem ==
    /\ pc = "ready" /\ module = "rules_list_item"
    /\ \E fail \in {"none", "accounts.list", "lists.list", "items.list",
                     "items.create", "items.delete"} :
          Finish(rules_list_item_run(params, remote, {fail}), {fail})

RunPageRule ==
    /\ pc = "ready" /\ module = "page_rule"
    /\ \E fail \in {"none", "zones.list", "page_rules.list", "page_rules.create",
                     "page_rules.update", "page_rules.delete"} :
          Finish(page_rule_run(params, remote, {fail}), {fail})

RunRulesetInfo ==
    /\ pc = "ready" /\ module = "ruleset_info"
    /\ \E fail \in {"none", "zones.list", "rulesets.list", "rulesets.get"} :
          Finish(ruleset_info_run(params, remote, {fail}), {fail})

RunRulesetRuleInfo ==
    /\ pc = "ready" /\ module = "ruleset_rule_info"
    /\ \E fail \in {"none", "zones.list", "rulesets.list", "rulesets.get"} :
          Finish(ruleset_rule_info_run(params, remote, {fail}), {fail})

\* The same task is run again.
RunAgain ==
    /\ pc = "done" /\ runs < MaxRuns
    /\ pc' = "ready"
    /\ calls' = <<>>
    /\ prev' = result
    /\ result' = NoResult
    /\ raised' = "none"
    /\ UNCHANGED <<module, params, remote, runs>>
    /\ UNCHANGED prio_vars

Next ==
    \/ RunZone
    \/ RunZoneSetting
    \/ RunRuleset
    \/ RunRulesetRule
    \/ RunRulesList
    \/ RunRulesListItem
    \/ RunPageRule
    \/ RunRulesetInfo
    \/ RunRulesetRuleInfo
    \/ RunAgain

Spec == RunInit /\ [][Next]_vars

----------------------------------------------------------------------------
\* get_list_items called on the pages Cloudflare serves for one list.

\* Largest number of pages of a list.
MaxPages == 3

\* The items of a page.
PageItems == {<<>>, <<"a">>, <<"b">>, <<"a", "b">>}

\* What page k of n can be: it has a result_info or none (None); one that
\* has it carries no 'after' cursor (0) or the cursor of a later page.
PagesAt(k, n) ==
    [items : PageItems, result_info : {FALSE}, after : {0}]
    \cup [items : PageItems, result_info : {TRUE}, after : {0} \cup (k + 1)..n]

\* The pages k..n of the sequences of n pages.
RECURSIVE PagesUpTo(_, _)
PagesUpTo(k, n) ==
    IF k > n THEN {<<>>}
    ELSE {<<page>> \o rest : page \in PagesAt(k, n), rest \in PagesUpTo(k + 1, n)}

\* The sequences of n pages the API can serve: page 1 answers the request
\* without a cursor, page k the request with cursor k.
PageSeqs(n) == PagesUpTo(1, n)

PagesInit ==
    /\ pc = "call"
    /\ module = "get_list_items"
    /\ params = <<>>
    /\ \E n \in 1..MaxPages : remote \in [pages : PageSeqs(n)]
    /\ calls = <<>>
    /\ result = <<>>
    /\ runs = 0
    /\ prev = <<>>
    /\ raised = "none"
    /\ old_prio = 1 /\ new_prio = 1 /\ rules_count = 1 /\ prio_ret = <<>>

GetListItems ==
    /\ pc = "call" /\ module = "get_list_items"
    /\ result' = get_list_items(remote.pages)
    /\ calls' = [k \in 1..result'.requests |-> "items.list"]
    /\ pc' = "returned"
    /\ UNCHANGED <<module, params, remote, runs, prev, raised>>
    /\ UNCHANGED prio_vars

PagesNext == GetListItems

SpecPages == PagesInit /\ [][PagesNext]_vars

----------------------------------------------------------------------------
\* build_new_value called on nested setting values.

MergeKeys == {"enabled", "max_age"}
MergeLeaves == {Str("on"), Str("off")}

\* The dicts with keys among MergeKeys and values in V.
DictsOver(V) == {Dict(f) : f \in UNION {[K -> V] : K \in SUBSET MergeKeys}}

\* The values drawn as old_value and new_value: strs, and dicts nested at
\* most two deep.
MergeValues == MergeLeaves \cup DictsOver(MergeLeaves \cup DictsOver(MergeLeaves))

MergeInit ==
    /\ pc = "call"
    /\ module = "build_new_value"
    /\ params \in [old_value : MergeValues, new_value : MergeValues]
    /\ remote = <<>>
    /\ calls = <<>>
    /\ result = <<>>
    /\ runs = 0
    /\ prev = <<>>
    /\ raised = "none"
    /\ old_prio = 1 /\ new_prio = 1 /\ rules_count = 1 /\ prio_ret = <<>>

\* What the caller's old_value holds once build_new_value has returned or
\* raised: merge_dicts assigns into its target in place, and the target is
\* _old_value, the deep copy, so the argument is as it was.
old_value_after(old_value, new_value) == old_value

BuildNewValue ==
    /\ pc = "call" /\ module = "build_new_value"
    /\ result' = build_new_value(params.old_value, params.new_value)
    /\ params' = [params EXCEPT
                     !.old_value = old_value_after(params.old_value, params.new_value)]
    /\ pc' = "returned"
    /\ UNCHANGED <<module, remote, calls, runs, prev, raised>>
    /\ UNCHANGED prio_vars

\* build_new_value called on its own result with the same new_value; an
\* exception in the first call leaves no result to call it on.
BuildNewValueAgain ==
    /\ pc = "returned" /\ module = "build_new_value"
    /\ result # Raised
    /\ prev' = result
    /\ result' = build_new_value(result, params.new_value)
    /\ pc' = "again"
    /\ UNCHANGED <<module, params, remote, calls, runs, raised>>
    /\ UNCHANGED prio_vars

MergeNext == BuildNewValue \/ BuildNewValueAgain

SpecMerge == MergeInit /\ [][MergeNext]_vars

----------------------------------------------------------------------------
\* Properties of calculate_new_priority (checked under SpecPrio)

Returned == Len(prio_ret) >= 1
Reapplied == Len(prio_ret) = 2
\* the value returned by the first call
r1 == prio_ret[1].value
\* the value returned by the second call
r2 == prio_ret[2].value

\* C1: for all positive old and requested priorities and every count >= 1 the
\* result is that of the ordered four-case rule: 1 for a sole rule; else, for
\* a request beyond the count, old when the rule is last and count + 1 when
\* it is not; else requested + 1 when moving later; else requested.
C1_FourCaseRule ==
    Returned =>
        /\ rules_count = 1 => r1 = 1
        /\ rules_count # 1 /\ new_prio > rules_count /\ old_prio = rules_count
              => r1 = old_prio
        /\ rules_count # 1 /\ new_prio > rules_count /\ old_prio # rules_count
              => r1 = rules_count + 1
        /\ rules_count # 1 /\ new_prio <= rules_count /\ new_prio > old_prio
              => r1 = new_prio + 1
        /\ rules_count # 1 /\ new_prio <= rules_count /\ new_prio <= old_prio
              => r1 = new_prio

C1_Witness ==
    /\ Returned
    /\ rules_count # 1 /\ new_prio > rules_count /\ old_prio = rules_count
    /\ r1 = old_prio

\* C2: with a sibling count of 1 the computed priority is 1, whatever the old
\* and the requested priorities are.
C2_SoleRule == Returned /\ rules_count = 1 => r1 = 1

C2_Witness ==
    Returned /\ rules_count = 1 /\ old_prio > 1 /\ new_prio > 1 /\ r1 = 1

\* C3 as claimed: a request beyond the count for a rule that is not last
\* yields count + 1, for every count >= 1.
C3_BeyondEnd_Original ==
    Returned /\ new_prio > rules_count /\ old_prio # rules_count
        => r1 = rules_count + 1

\* C3 as amended: a request beyond the count for a rule that is not last
\* yields count + 1 when the count is at least 2 (a sole rule yields 1).
C3_BeyondEnd ==
    Returned /\ rules_count >= 2 /\ new_prio > rules_count
             /\ old_prio # rules_count
        => r1 = rules_count + 1

C3_Witness ==
    /\ Returned
    /\ rules_count >= 2 /\ new_prio > rules_count /\ old_prio < rules_count
    /\ r1 = rules_count + 1

C5_AlreadyLast ==
    Returned /\ old_prio = rules_count /\ new_prio > rules_count
        => r1 = old_prio

C5_Witness ==
    /\ Returned
    /\ rules_count >= 2 /\ old_prio = rules_count /\ new_prio > rules_count + 1
    /\ r1 = rules_count

\* C6: a request after the old priority and within the count yields the
\* request plus one.
C6_MovingLater ==
    Returned /\ old_prio < new_prio /\ new_prio <= rules_count
        => r1 = new_prio + 1

C6_Witness ==
    /\ Returned
    /\ old_prio < new_prio /\ new_prio < rules_count
    /\ r1 = new_prio + 1

\* C7: when the request is at or before the old priority, calling the
\* function again with its own result as the old priority returns that
\* result again.
C7_FixedPoint == Reapplied /\ new_prio <= old_prio => r2 = r1

C7_Witness ==
    /\ Reapplied
    /\ rules_count >= 2 /\ new_prio < old_prio /\ new_prio <= rules_count
    /\ r1 = new_prio /\ r2 = new_prio

\* C8: for an old priority within the count the result lies in
\* 1 .. count + 1.
C8_Clamped ==
    Returned /\ old_prio <= rules_count
        => 1 <= r1 /\ r1 <= rules_count + 1

C8_Witness ==
    /\ Returned
    /\ old_prio < rules_count /\ new_prio > rules_count + 1
    /\ r1 = rules_count + 1

----------------------------------------------------------------------------
\* Properties of the update with the computed priority (checked under
\* SpecPlace)

\* The ids of the rules other than the one with the given id, in order.
OtherIds(rules, id) ==
    LET ids == [i \in DOMAIN rules |-> rules[i].id]
    IN SelectSeq(ids, LAMBDA x : x # id)

\* C22: for an old priority within the count, after the update submitted
\* with the computed priority the rule is at position min(requested, count),
\* with that priority, and the other rules are in the order they had.
C22_ReachesPosition ==
    pc = "updated" =>
        LET rules == remote.page_rules
            target == IF new_prio < rules_count THEN new_prio ELSE rules_count
        IN /\ Len(rules) = rules_count
           /\ rules[target].id = old_prio
           /\ rules[target].priority = target
           /\ OtherIds(rules, old_prio) = OtherIds(SiblingRules(rules_count), old_prio)

\* A move to a later position that is not the last.
C22_Witness ==
    /\ pc = "updated"
    /\ old_prio < new_prio /\ new_prio < rules_count
    /\ remote.page_rules[new_prio].id = old_prio

----------------------------------------------------------------------------
\* Properties of the run_module handlers (checked under Spec)

\* C10: in every state-managing module a run in check mode issues no create,
\* update, edit or delete call and reports changed = false, whatever the
\* remote state and the parameters are.
C10_CheckMode ==
    pc = "done" /\ params.check_mode => Mutations = {} /\ ~result.changed

C10_Witness ==
    /\ pc = "done" /\ module = "page_rule"
    /\ params.check_mode /\ params.state = "present"
    /\ ~result.failed
    /\ IsEmpty(result.value.old_rule)
    /\ calls = <<"zones.list", "page_rules.list">>

\* C11: cloudflare_rules_list, state=present: when the previous run of the
\* task succeeded, the next run with the same parameters issues no create,
\* update or delete call and reports changed = false.
C11_Idempotent ==
    /\ pc = "done" /\ module = "rules_list" /\ runs >= 2
    /\ params.state = "present" /\ ~prev.failed
    => Mutations = {} /\ ~result.changed

\* The modules that resolve zone_name, and the messages of their read
\* phases when a listing call raises.
ZoneResolvers ==
    {"page_rule", "zone_setting", "ruleset", "ruleset_info", "ruleset_rule",
     "ruleset_rule_info"}

FetchMessages ==
    {"Could not fetch page rules from Cloudflare",
     "Unable to fetch zone setting from Cloudflare",
     "Could not fetch rulesets from Cloudflare"}

\* The zones.list call of the run returned a listing.
ZonesListed ==
    /\ calls # <<>> /\ calls[1] = "zones.list"
    /\ ~(Len(calls) = 1 /\ result.failed /\ result.msg \in FetchMessages)

\* C12: in the modules that resolve zone_name, once zones.list has returned,
\* the zone used is the one named exactly zone_name, and when the listing
\* has no zone of that name (it is empty or holds other names only) the run
\* fails with "Zone does not exist" and issues no further call.
C12_ExactZone ==
    pc = "done" /\ module \in ZoneResolvers /\ ZonesListed =>
        IF \E j \in DOMAIN remote.zones : remote.zones[j].name = params.zone_name
        THEN ResolveZone(remote.zones, params.zone_name) = <<Zone(params.zone_name)>>
        ELSE /\ result.failed /\ result.msg = "Zone does not exist"
             /\ calls = <<"zones.list">>

\* C13: when a create, update, edit or delete call raises, the run ends in
\* failure with a message and reports changed = false; a run that reports
\* changed = true had no mutating call raise.
C13_ErrorPropagation ==
    pc = "done" =>
        /\ raised \in MutatingCalls =>
              result.failed /\ result.msg # "" /\ ~result.changed
        /\ result.changed => raised \notin MutatingCalls /\ ~result.failed

\* A replacement whose delete went through and whose create raised.
C13_Witness ==
    /\ pc = "done" /\ module = "rules_list_item"
    /\ raised = "items.create"
    /\ "items.delete" \in {calls[i] : i \in 1..Len(calls)}
    /\ result.failed /\ ~result.changed

\* The number of positions of seq that hold x.
Count(seq, x) == Cardinality({i \in 1..Len(seq) : seq[i] = x})

\* C15: cloudflare_rules_list with state=absent, no call raising: when the
\* account holds a list of exactly the given name, with or without items,
\* the run issues one lists.delete and reports changed = true; when it holds
\* none, the run issues no mutating call and reports changed = false.
C15_AbsentDeletes ==
    [][/\ pc = "ready" /\ module = "rules_list"
       /\ params.state = "absent" /\ ~params.check_mode
       /\ raised' = "none" /\ ~result'.failed
       => IF \E j \in DOMAIN remote.lists : remote.lists[j].name = params.name
          THEN Count(calls', "lists.delete") = 1 /\ result'.changed
          ELSE Mutations' = {} /\ ~result'.changed]_vars

\* C16: cloudflare_ruleset_rule_info queried by ref alone: the rule
\* returned, if any, has the requested ref, and the returned rule is empty
\* when no rule of the ruleset has that ref, whatever the descriptions of the
\* rules are.
C16_ByRef ==
    /\ pc = "done" /\ module = "ruleset_rule_info" /\ ~result.failed
    /\ params.ref # None /\ params.description = None
    => LET i == FirstIndex({j \in DOMAIN remote.rulesets :
                               /\ remote.rulesets[j].name = params.ruleset_name
                               /\ remote.rulesets[j].phase = params.phase})
           rules == remote.rulesets[i].rules
       IN /\ ~IsEmpty(result.value) => result.value.ref = params.ref
          /\ (\A j \in DOMAIN rules : rules[j].ref # params.ref)
                => IsEmpty(result.value)

\* C17: cloudflare_ruleset_rule with state=present: the rule returned by a
\* successful run outside check mode (the rule was created, edited or
\* already matching) has the fields id, version and last_updated.
C17_ServerFields ==
    /\ pc = "done" /\ module = "ruleset_rule" /\ ~result.failed
    /\ params.state = "present" /\ ~params.check_mode
    => ServerFields \subseteq DOMAIN result.value

\* The kind-key values of items: the ip, asn or hostname of each, or the
\* serialization of its redirect.
KeyValues(kind, items) ==
    {IF kind = "redirect" THEN Dumps(items[k].redirect) ELSE items[k][kind] :
        k \in 1..Len(items)}

\* Every item has the key of the kind.
Keyed(kind, items) == \A k \in 1..Len(items) : kind \in DOMAIN items[k]

\* C18: for items that have the key of the kind, compare_lists is true
\* exactly when the old and the new items have the same set of kind-key
\* values, whatever their order, repetitions and other fields; and a run of
\* cloudflare_rules_list with state=present on an existing list with items
\* issues items.update exactly when compare_lists is false.
C18_ByContent ==
    [][/\ pc = "ready" /\ module = "rules_list"
       /\ params.state = "present" /\ ~params.check_mode
       /\ params.items # Nothing
       /\ "items.list" \in {calls'[k] : k \in 1..Len(calls')}
       /\ raised' \notin {"items.list", "items.update"}
       => LET i == FirstIndex({j \in DOMAIN remote.lists :
                                  remote.lists[j].name = params.name})
              old == remote.lists[i].items
              new == params.items[2]
              kind == params.kind
              same == KeyValues(kind, old) = KeyValues(kind, new)
          IN old # <<>> /\ Keyed(kind, old) /\ Keyed(kind, new)
             => /\ compare_lists(kind, old, new) = Some(same)
                /\ Count(calls', "items.update") = (IF same THEN 0 ELSE 1)
                /\ result'.changed = ~same]_vars

\* The requested items are those of the list in another order, with a
\* repetition and without the comment: no update.
C18_Witness ==
    /\ pc = "done" /\ module = "rules_list" /\ ~result.failed
    /\ params.state = "present" /\ ~params.check_mode
    /\ params.items = Some(<<Ip2, Ip1_plain, Ip2>>)
    /\ remote.lists # <<>> /\ Len(remote.lists[1].items) = 2
    /\ Count(calls, "items.list") >= 1 /\ Count(calls, "items.update") = 0
    /\ ~result.changed

ScopedModules == {"ruleset", "ruleset_info", "ruleset_rule", "ruleset_rule_info"}

ScopeMessage == "Either account_id or zone_name must be specified"

\* C20: the ruleset modules fail with the scope message before any API call
\* whenever account_id and zone_name are both given or both omitted, and get
\* past the scope test only when exactly one of them is given.
C20_ScopeExclusive ==
    pc = "done" /\ module \in ScopedModules =>
        LET both == params.account_id # None /\ params.zone_name # None
            neither == params.account_id = None /\ params.zone_name = None
        IN IF both \/ neither
           THEN result.failed /\ result.msg = ScopeMessage /\ calls = <<>>
           ELSE result.msg # ScopeMessage

C20_Witness ==
    /\ pc = "done" /\ module = "ruleset_rule_info"
    /\ params.account_id # None /\ params.zone_name # None
    /\ result.failed /\ result.msg = ScopeMessage /\ calls = <<>>

\* C21: cloudflare_ruleset creates and deletes only. With state=present and
\* a ruleset of the given name among those listed, the run issues no
\* mutating call and reports changed = false, whatever the requested kind and
\* phase are; rulesets.create is issued only with state=present when no
\* ruleset has the name, rulesets.delete only with state=absent when one has.
C21_CreateDeleteOnly ==
    [][pc = "ready" /\ module = "ruleset"
       => LET exists == \E j \in DOMAIN remote.rulesets :
                            remote.rulesets[j].name = params.name
              issued == {calls'[k] : k \in 1..Len(calls')}
          IN /\ params.state = "present" /\ exists
                   => Mutations' = {} /\ ~result'.changed
             /\ "rulesets.create" \in issued
                   => ~exists /\ params.state = "present"
             /\ "rulesets.delete" \in issued
                   => exists /\ params.state = "absent"
             /\ issued \cap MutatingCalls \subseteq {"rulesets.create", "rulesets.delete"}]_vars

\* The ruleset exists with another kind than the one requested, and the run
\* leaves it alone.
C21_Witness ==
    /\ pc = "done" /\ module = "ruleset" /\ ~result.failed
    /\ params.state = "present" /\ ~params.check_mode
    /\ ~IsEmpty(result.value) /\ result.value.kind # params.kind
    /\ Mutations = {} /\ ~result.changed

\* C23: cloudflare_page_rule with state=present on a rule that has the
\* requested actions (as a map from id to value), the requested status and
\* the priority min(requested, number of rules): the computed priority is the
\* existing one, no update is issued and changed = false.
C23_Converged ==
    [][/\ pc = "ready" /\ module = "page_rule"
       /\ params.state = "present" /\ ~params.check_mode
       /\ raised' = "none"
       /\ "page_rules.list" \in {calls'[k] : k \in 1..Len(calls')}
       => LET rules == remote.page_rules
              n == Len(rules)
              i == FirstIndex({j \in DOMAIN rules :
                                  rules[j].targets = NormalizeUrl(params.target_url)})
          IN /\ i # 0
             /\ ActionDict(rules[i].actions) = ActionDict(params.actions)
             /\ rules[i].status = (IF params.enabled THEN "active" ELSE "disabled")
             /\ rules[i].priority = (IF params.priority < n THEN params.priority ELSE n)
             => /\ ~result'.failed /\ ~result'.changed
                /\ Mutations' = {}
                /\ result'.value.new_rule.priority = rules[i].priority
                /\ remote' = remote]_vars

\* The rule is the last of several, requested beyond the end, with the
\* requested actions given as a list that repeats an id.
C23_Witness ==
    /\ pc = "done" /\ module = "page_rule" /\ ~result.failed
    /\ params.state = "present" /\ ~params.check_mode
    /\ params.actions = A_off_on
    /\ Len(remote.page_rules) >= 2 /\ params.priority > Len(remote.page_rules)
    /\ ~IsEmpty(result.value.old_rule)
    /\ result.value.old_rule.priority = Len(remote.page_rules)
    /\ calls = <<"zones.list", "page_rules.list">>
    /\ ~result.changed

\* C25: a failed run leaves the remote lists and their items as they were:
\* cloudflare_rules_list_item replacing an item (items.delete then
\* items.create) and cloudflare_rules_list creating a list (lists.create then
\* items.create), whichever API call fails.
C25_FailureAtomic ==
    [][/\ pc = "ready" /\ result'.failed
       /\ \/ module = "rules_list_item"
                /\ "items.delete" \in {calls'[k] : k \in 1..Len(calls')}
                /\ params.state = "present"
          \/ module = "rules_list"
                /\ "lists.create" \in {calls'[k] : k \in 1..Len(calls')}
       => remote' = remote]_vars

\* Every entry of the requested value is what the current value already
\* holds: a str equals it, a dict has each of its keys matched by the current
\* dict.
RECURSIVE Matches(_, _)
Matches(current, requested) ==
    IF IsDict(requested)
    THEN /\ IsDict(current)
         /\ \A key \in DOMAIN requested[2] :
               key \in DOMAIN current[2] /\ Matches(current[2][key], requested[2][key])
    ELSE current = requested

C28_MissingRuleset ==
    [][/\ pc = "ready" /\ module = "ruleset_rule" /\ ~params.check_mode
       /\ "rulesets.list" \in {calls'[k] : k \in 1..Len(calls')}
       /\ raised' = "none"
       /\ \A j \in DOMAIN remote.rulesets :
             remote.rulesets[j].name # params.ruleset_name
       => /\ params.state = "present"
                => result'.failed /\ result'.msg = "Ruleset does not exist"
          /\ params.state = "absent" => ~result'.failed
          /\ ~result'.changed
          /\ Mutations' = {}
          /\ remote' = remote]_vars

\* state=absent on a zone that holds another ruleset only: the run succeeded
\* without a change, and so did its repetition.
C28_Witness ==
    /\ pc = "done" /\ module = "ruleset_rule" /\ ~params.check_mode
    /\ params.state = "absent" /\ params.zone_name # None
    /\ Len(remote.rulesets) = 1 /\ remote.rulesets[1].name # params.ruleset_name
    /\ calls = <<"zones.list", "rulesets.list">>
    /\ ~result.failed /\ ~result.changed
    /\ runs = 2 /\ prev = result

\* C29: cloudflare_zone outside check mode issues zones.create exactly when
\* state=present and the listing holds no zone of exactly the given name, and
\* zones.delete exactly when state=absent and it holds one; otherwise it
\* issues no mutating call and changed = false, so that a run repeated after
\* a successful one changes nothing.
C29_OneStep ==
    [][pc = "ready" /\ module = "zone"
       => LET exists == \E j \in DOMAIN remote.zones : remote.zones[j].name = params.name
              issued == {calls'[k] : k \in 1..Len(calls')}
              listed == ~params.check_mode /\ raised' # "zones.list"
          IN /\ "zones.create" \in issued
                  <=> listed /\ params.state = "present" /\ ~exists
             /\ "zones.delete" \in issued
                  <=> listed /\ params.state = "absent" /\ exists
             /\ issued \cap MutatingCalls \subseteq {"zones.create", "zones.delete"}
             /\ issued \cap MutatingCalls = {}
                  => ~result'.changed /\ remote' = remote
             /\ runs >= 1 /\ ~prev.failed
                  => Mutations' = {} /\ ~result'.changed /\ remote' = remote]_vars

\* The zone was created by the first run and left alone by the second.
C29_Witness ==
    /\ pc = "done" /\ module = "zone" /\ ~params.check_mode
    /\ params.state = "present"
    /\ runs = 2 /\ ~prev.failed /\ prev.changed
    /\ calls = <<"zones.list">>
    /\ ~result.failed /\ ~result.changed
    /\ \E j \in DOMAIN remote.zones : remote.zones[j].name = params.name

----------------------------------------------------------------------------
\* Properties of get_list_items (checked under SpecPages)

\* The page carries an 'after' cursor.
HasAfter(page) == page.result_info /\ page.after # 0

\* The pages reached from page k by following the 'after' cursors, up to and
\* including the first page that carries none.
RECURSIVE PagesFrom(_, _)
PagesFrom(pages, k) ==
    IF HasAfter(pages[k]) THEN <<k>> \o PagesFrom(pages, pages[k].after)
    ELSE <<k>>

\* The items of the pages numbered in chain, in that order.
RECURSIVE ItemsOf(_, _)
ItemsOf(pages, chain) ==
    IF chain = <<>> THEN <<>>
    ELSE pages[Head(chain)].items \o ItemsOf(pages, Tail(chain))

\* C14: get_list_items returns, after one request per page, the items of the
\* pages reached from the first by following the 'after' cursors, up to and
\* including the first page that carries no 'after' cursor, in page order.
C14_Pagination ==
    pc = "returned" /\ module = "get_list_items" =>
        LET chain == PagesFrom(remote.pages, 1)
        IN /\ ~result.hang
           /\ result.requests = Len(chain)
           /\ result.items = ItemsOf(remote.pages, chain)

\* The number of the first page, following the 'after' cursors from page k,
\* that carries no 'after' cursor (its result_info may be None).
RECURSIVE FirstWithoutAfter(_, _)
FirstWithoutAfter(pages, k) ==
    IF HasAfter(pages[k]) THEN FirstWithoutAfter(pages, pages[k].after) ELSE k

\* C24: get_list_items terminates on every finite sequence of pages: once a
\* page without an 'after' cursor is returned, also one whose result_info is
\* None after a page that carried a cursor, no further list request is made
\* and the function returns.
C24_Terminates ==
    pc = "returned" /\ module = "get_list_items" =>
        LET last == FirstWithoutAfter(remote.pages, 1)
            chain == PagesFrom(remote.pages, 1)
        IN /\ ~result.hang
           /\ chain[Count(calls, "items.list")] = last
           /\ \A k \in 1..(Len(calls) - 1) : ~(chain[k] = last)

----------------------------------------------------------------------------
\* Properties of build_new_value (checked under SpecMerge)

\* The keys of a value: those of a dict, none for a str.
KeysOf(v) == IF IsDict(v) THEN DOMAIN v[2] ELSE {}

\* res is the merge of the dict new into old: a dict with the keys of both
\* in which a key new does not mention has its old value, a key new mentions
\* whose old value is absent or not a dict has new's value, and a key whose
\* old and new values are both dicts has their merge.
RECURSIVE IsMerge(_, _, _)
IsMerge(old, new, res) ==
    /\ res # Raised /\ IsDict(res)
    /\ DOMAIN res[2] = KeysOf(old) \cup KeysOf(new)
    /\ \A key \in DOMAIN res[2] :
          /\ key \notin KeysOf(new) => res[2][key] = old[2][key]
          /\ key \in KeysOf(new) /\ (key \notin KeysOf(old) \/ ~IsDict(old[2][key]))
                => res[2][key] = new[2][key]
          /\ key \in KeysOf(new) /\ key \in KeysOf(old)
                /\ IsDict(old[2][key]) /\ IsDict(new[2][key])
                => IsMerge(old[2][key], new[2][key], res[2][key])

\* C19: for every old value and every dict new value build_new_value returns
\* the merge of new into old, at every nesting level; for a new value that
\* is not a dict it returns the new value.
C19_RecursiveMerge ==
    pc = "returned" /\ module = "build_new_value" =>
        IF IsDict(params.new_value)
        THEN IsMerge(params.old_value, params.new_value, result)
        ELSE result = params.new_value


\* C27: build_new_value leaves its old_value argument as it was at every
\* nesting level and returns a value on which a second call with the same
\* new value changes nothing: build_new_value(build_new_value(old, new), new)
\* equals build_new_value(old, new) for all nested old and new.
C27_FrameAndIdempotent ==
    [][module = "build_new_value"
       => /\ pc = "call" => params' = params /\ result' # Raised
          /\ pc = "returned" => result' = result /\ params' = params]_vars

====
